---- MODULE Spec2Model ----
(***************************************************************************)
(* Regshield browser clients.                                              *)
(*                                                                         *)
(*  - the React clause-search UI (Frontend/clause-search-ui/src/App.jsx):  *)
(*    token store, session validation against /auth/me, login view,        *)
(*    search orchestration and client-side filtering (specification Spec); *)
(*  - the static search page script (unnamed/part_000): the form submit    *)
(*    handler and its auto-run (specification PageSpec);                   *)
(*  - the console login page (unnamed/part_001): LoginPage.handleSubmit    *)
(*    (specification LoginPageSpec).                                       *)
(*                                                                         *)
(* One action is one run of an event handler or of the continuation of an  *)
(* awaited fetch, together with the React re-render and the effects that   *)
(* the state updates of that run schedule (updates made in one run are     *)
(* batched into one render).                                               *)
(***************************************************************************)
EXTENDS Integers, Sequences, FiniteSets, TLC

VARIABLES
  now,          \* Date.now(), in milliseconds
  store,        \* localStorage["token"] of the React UI
  mounted,      \* App's first render has committed and its effects have run
  token,        \* App: useState token
  authed,       \* App: useState authed
  authChecked,  \* App: useState authChecked
  checks,       \* validate() calls awaiting /auth/me, oldest first
  lvLoading,    \* LoginView: useState loading
  lvErr,        \* LoginView: useState err
  logins,       \* LoginView.submit calls awaiting /auth/login, oldest first
  query,        \* App: useState query
  method,       \* App: useState method
  alpha,        \* App: useState alpha, in hundredths
  topK,         \* App: useState topK
  loading,      \* App: useState loading
  error,        \* App: useState error
  results,      \* App: useState results
  totalMatches, \* App: useState totalMatches
  sourceFilter, \* App: useState sourceFilter
  searches,     \* runSearch calls awaiting /search, oldest first
  \* ---- the static search page (part_000)
  pgLoaded,     \* DOMContentLoaded has fired
  pgQ,          \* qInput.value
  pgTopK,       \* topKInput.value (0: empty or not a number)
  pgMethod,     \* methodSel.value
  pgAlpha,      \* alphaInput.value, in hundredths
  pgErr,        \* errBox: [shown, text]
  pgInfo,       \* infoBox is shown
  pgStat,       \* statText: [text, method, alpha]
  pgCount,      \* countPill: [shown, n, total]
  pgResults,    \* resultsBox: the cards it holds
  pgReqs,       \* submit handlers awaiting /search, oldest first
  \* ---- the console login page (part_001)
  lpOpen,       \* LoginPage is the mounted route
  lpRemember,   \* LoginPage: useState remember
  lpError,      \* LoginPage: useState error
  lpLocal,      \* localStorage["token"] of the console
  lpSession,    \* sessionStorage["token"] of the console
  lpLogins,     \* handleSubmit calls awaiting /auth/login
  \* ---- one result card (ResultCard of the React UI, the card of the page)
  hlText,       \* c.text of the item
  hlQuery,      \* the query the card is rendered with
  hlBy,         \* which program has rendered the card ("none": not yet)
  hlOut         \* the card's text as displayed: segments [mark, text]

appVars == <<now, store, mounted, token, authed, authChecked, checks, lvLoading,
             lvErr, logins, query, method, alpha, topK, loading, error, results,
             totalMatches, sourceFilter, searches>>

pageVars == <<pgLoaded, pgQ, pgTopK, pgMethod, pgAlpha, pgErr, pgInfo, pgStat, pgCount,
              pgResults, pgReqs>>

lpVars == <<lpOpen, lpRemember, lpError, lpLocal, lpSession, lpLogins>>

hlVars == <<hlText, hlQuery, hlBy, hlOut>>

vars == <<appVars, pageVars, lpVars, hlVars>>

\* the rest of the state, as seen from each program
notApp == <<pageVars, lpVars, hlVars>>
notPage == <<appVars, lpVars, hlVars>>
notLoginPage == <<appVars, pageVars, hlVars>>
notCard == <<appVars, pageVars, lpVars>>

(***************************************************************************)
(* Bounds of the model.                                                    *)
(***************************************************************************)
MaxTicks == 1        \* the clock advances this many seconds
MaxChecks == 2       \* /auth/me calls in flight at once
MaxLogins == 1       \* /auth/login calls of LoginView in flight at once
MaxSearches == 2     \* /search calls of App in flight at once
MaxPageReqs == 1     \* /search calls of the static page in flight at once
MaxLpLogins == 2     \* /auth/login calls of LoginPage in flight at once

(***************************************************************************)
(* Tokens.  A token is a dot-separated string; what the code reads of it   *)
(* is the number of segments, whether the second segment decodes           *)
(* (base64url -> JSON) and the exp claim of the decoded payload            *)
(* (0: absent or falsy).  NoToken is the empty string.                     *)
(***************************************************************************)
NoToken == [segs |-> 0, ok |-> FALSE, exp |-> 0]
Garbage == [segs |-> 2, ok |-> FALSE, exp |-> 0]
NoExp   == [segs |-> 3, ok |-> TRUE,  exp |-> 0]
JwtA    == [segs |-> 3, ok |-> TRUE,  exp |-> 1]
JwtB    == [segs |-> 3, ok |-> TRUE,  exp |-> 2]
Tokens  == {Garbage, NoExp, JwtA, JwtB}

MsPerSec == 1000

\* parseJwt: the payload, or null ([valid |-> FALSE]) when split(".")[1] is
\* undefined or atob / JSON.parse throws.
parseJwt(t) ==
  IF t.segs >= 2 /\ t.ok
    THEN [valid |-> TRUE, exp |-> t.exp]
    ELSE [valid |-> FALSE, exp |-> 0]

isExpiredStrict(t) ==
  LET p == parseJwt(t)
  IN  IF ~p.valid \/ p.exp = 0 THEN TRUE ELSE now > p.exp * MsPerSec

isExpired(t) ==
  LET p == parseJwt(t)
  IN  IF ~p.valid \/ p.exp = 0 THEN TRUE ELSE now >= p.exp * MsPerSec

\* !token || isExpired(token): validate's local Invalid branch
LocallyInvalid(t) == t = NoToken \/ isExpired(t)

(***************************************************************************)
(* Query text: a sequence of characters.                                   *)
(***************************************************************************)
IsSpace(c) == c = " "

RECURSIVE TrimStart(_)
TrimStart(s) ==
  IF s = <<>> THEN <<>>
  ELSE IF IsSpace(Head(s)) THEN TrimStart(Tail(s)) ELSE s

RECURSIVE TrimEnd(_)
TrimEnd(s) ==
  IF s = <<>> THEN <<>>
  ELSE IF IsSpace(s[Len(s)]) THEN TrimEnd(SubSeq(s, 1, Len(s) - 1)) ELSE s

Trim(s) == TrimEnd(TrimStart(s))

DefaultQuery == <<"p", " ", "l">>
QueryTexts == {<<>>, <<" ">>, <<" ", "q">>, DefaultQuery}

PageQueries == {<<" ">>, <<" ", "q">>, DefaultQuery}

Methods == {"lexical", "semantic", "hybrid"}

\* Values typed into the "Max results" and "Alpha" inputs (alpha in hundredths;
\* 0 stands for an empty or non-numeric entry, Number("") = 0).
TopKInputs == {0, 2, 200}
AlphaInputs == {30, 150}
PageAlphaInputs == {30}

(***************************************************************************)
(* /search response bodies.  An item is identified by its source and       *)
(* reference.  hasResults: data.results is an array; hasTotal:             *)
(* data.total_matches is a number.                                         *)
(***************************************************************************)
Item(s, r) == [source |-> s, reference |-> r]

BodyFull   == [hasResults |-> TRUE, results |-> <<Item("A", 1), Item("B", 2), Item("A", 3)>>,
               hasTotal |-> TRUE, total_matches |-> 45]
BodyNoTot  == [hasResults |-> TRUE, results |-> <<Item("C", 4)>>,
               hasTotal |-> FALSE, total_matches |-> 0]
BodyNoRes  == [hasResults |-> FALSE, results |-> <<>>,
               hasTotal |-> TRUE, total_matches |-> 7]
Bodies == {BodyFull, BodyNoTot, BodyNoRes}

\* a longer body, for the result post-processing
BodyLong   == [hasResults |-> TRUE,
               results |-> <<Item("A", 1), Item("B", 2), Item("A", 3), Item("C", 4),
                             Item("A", 5)>>,
               hasTotal |-> TRUE, total_matches |-> 5]
FilterBodies == Bodies \cup {BodyLong}

\* Array.isArray(data.results) ? data.results : []
DecodeResults(data) == IF data.hasResults THEN data.results ELSE <<>>

\* typeof data.total_matches === "number" ? data.total_matches : 0
DecodeTotal(data) == IF data.hasTotal THEN data.total_matches ELSE 0

(***************************************************************************)
(* Helpers on the in-flight pools.                                         *)
(***************************************************************************)
RemoveAt(s, i) == SubSeq(s, 1, i - 1) \o SubSeq(s, i + 1, Len(s))

NeverCancelled(cs) == cs

\* the cleanup of the previous token effect: cancelled = true
Cancelled(cs) == [i \in 1..Len(cs) |-> [cs[i] EXCEPT !.cancelled = TRUE]]

\* LoginView unmounts: its pending submit calls now set state on a dead instance
Orphaned(ls) == [i \in 1..Len(ls) |-> [ls[i] EXCEPT !.live = FALSE]]

\* a newer request has been issued
Superseded(ss) == [i \in 1..Len(ss) |-> [ss[i] EXCEPT !.latest = FALSE]]

\* the static page before DOMContentLoaded; the document (not among the
\* sources) is taken to give the inputs the defaults of the React UI
PageInit ==
  /\ pgLoaded = FALSE
  /\ pgQ = DefaultQuery
  /\ pgTopK = 0
  /\ pgMethod = "hybrid"
  /\ pgAlpha = 60
  /\ pgErr = [shown |-> FALSE, text |-> ""]
  /\ pgInfo = FALSE
  /\ pgStat = [text |-> "", method |-> "", alpha |-> 0]
  /\ pgCount = [shown |-> FALSE, n |-> 0, total |-> 0]
  /\ pgResults = <<>>
  /\ pgReqs = <<>>

\* LoginPage's useState initialisers; the console's stores are empty
LoginPageInit ==
  /\ lpOpen = TRUE
  /\ lpRemember = TRUE
  /\ lpError = ""
  /\ lpLocal = NoToken
  /\ lpSession = NoToken
  /\ lpLogins = <<>>

(***************************************************************************)
(* Initial state: App's useState initialisers.  The token store holds      *)
(* whatever an earlier visit left in it.                                   *)
(***************************************************************************)
AppInit ==
  /\ now = 0
  /\ store \in Tokens \cup {NoToken}
  /\ mounted = FALSE
  /\ token = store
  /\ authed = FALSE
  /\ authChecked = FALSE
  /\ checks = <<>>
  /\ lvLoading = FALSE
  /\ lvErr = ""
  /\ logins = <<>>
  /\ query = DefaultQuery
  /\ method = "hybrid"
  /\ alpha = 60
  /\ topK = 20
  /\ loading = FALSE
  /\ error = ""
  /\ results = <<>>
  /\ totalMatches = 0
  /\ sourceFilter = {}
  /\ searches = <<>>

searchVars == <<query, method, alpha, topK, loading, error, results, totalMatches,
                sourceFilter, searches>>
loginVars == <<lvLoading, lvErr, logins>>

\* what the render shows
CheckingSession == ~authChecked
LoginShown == mounted /\ authChecked /\ ~authed
MainShown == mounted /\ authChecked /\ authed

(***************************************************************************)
(* The effect on [token]: the previous run's cleanup, then validate() up   *)
(* to its first await.  st and au are the store and authed as the handler  *)
(* left them.                                                              *)
(***************************************************************************)
TokenEffectRechecks(t, st, au) ==
  IF LocallyInvalid(t)
    THEN /\ store' = NoToken
         /\ authed' = FALSE
         /\ authChecked' = TRUE
         /\ checks' = Cancelled(checks)
    ELSE /\ Len(checks) < MaxChecks
         /\ store' = st
         /\ authed' = au
         /\ authChecked' = FALSE
         /\ checks' = Append(Cancelled(checks), [tok |-> t, cancelled |-> FALSE])

TokenEffect(t, st, au) ==
  IF LocallyInvalid(t)
    THEN /\ store' = NoToken
         /\ authed' = FALSE
         /\ authChecked' = TRUE
         /\ checks' = Cancelled(checks)
    ELSE /\ Len(checks) < MaxChecks
         /\ store' = st
         /\ authed' = au
         /\ authChecked' = authChecked
         /\ checks' = Append(Cancelled(checks), [tok |-> t, cancelled |-> FALSE])

\* the first render and its effects (the effect on [authed] finds authed false)
Mount ==
  /\ ~mounted
  /\ mounted' = TRUE
  /\ TokenEffect(token, store, authed)
  /\ UNCHANGED <<notApp, now, token, loginVars, searchVars>>

Tick ==
  /\ now < MaxTicks * MsPerSec
  /\ now' = now + MsPerSec
  /\ UNCHANGED <<notApp, store, mounted, token, authed, authChecked, checks, loginVars,
                 searchVars>>

(***************************************************************************)
(* runSearch                                                               *)
(***************************************************************************)
BuildRequestAlphaAlways ==
  [query |-> query, top_k |-> topK, method |-> method,
   hasAlpha |-> TRUE,
   alpha |-> alpha,
   latest |-> TRUE]

\* the parameters set on the URL: hasAlpha tells whether alpha is among them
BuildRequest ==
  [query |-> query, top_k |-> topK, method |-> method,
   hasAlpha |-> method = "hybrid",
   alpha |-> IF method = "hybrid" THEN alpha ELSE 0,
   latest |-> TRUE]

RunSearchBlankToo(au) ==
  IF ~au
    THEN UNCHANGED <<loading, error, searches>>
    ELSE /\ Len(searches) < MaxSearches
         /\ loading' = TRUE
         /\ error' = ""
         /\ searches' = Append(Superseded(searches), BuildRequest)

\* au: authed as the calling render sees it
RunSearch(au) ==
  IF Trim(query) = <<>> \/ ~au
    THEN UNCHANGED <<loading, error, searches>>
    ELSE /\ Len(searches) < MaxSearches
         /\ loading' = TRUE
         /\ error' = ""
         /\ searches' = Append(Superseded(searches), BuildRequest)

(***************************************************************************)
(* validate() after its await                                              *)
(***************************************************************************)
\* /auth/me answered with a success status
ValidateOk(i) ==
  LET c == checks[i]
  IN  /\ checks' = RemoveAt(checks, i)
      /\ UNCHANGED <<notApp, now, store, mounted, token>>
      /\ IF c.cancelled
           THEN UNCHANGED <<authed, authChecked, loginVars, loading, error, searches>>
           ELSE /\ authed' = TRUE
                /\ authChecked' = TRUE
                /\ IF authed
                     THEN UNCHANGED <<loginVars, loading, error, searches>>
                     ELSE \* LoginView (if shown) unmounts; the effect on [authed] runs
                          /\ lvLoading' = FALSE
                          /\ lvErr' = ""
                          /\ logins' = Orphaned(logins)
                          /\ RunSearch(TRUE)
      /\ UNCHANGED <<query, method, alpha, topK, results, totalMatches, sourceFilter>>

ValidateFailKeepsStore(i) ==
  LET c == checks[i]
  IN  /\ checks' = RemoveAt(checks, i)
      /\ store' = store
      /\ IF c.cancelled
           THEN UNCHANGED <<authed, authChecked>>
           ELSE authed' = FALSE /\ authChecked' = TRUE
      /\ UNCHANGED <<notApp, now, mounted, token, loginVars, searchVars>>

\* /auth/me answered with a non-success status, or fetch rejected
ValidateFail(i) ==
  LET c == checks[i]
  IN  /\ checks' = RemoveAt(checks, i)
      /\ store' = NoToken
      /\ IF c.cancelled
           THEN UNCHANGED <<authed, authChecked>>
           ELSE authed' = FALSE /\ authChecked' = TRUE
      /\ UNCHANGED <<notApp, now, mounted, token, loginVars, searchVars>>

(***************************************************************************)
(* LoginView.submit                                                        *)
(***************************************************************************)
\* the form is submitted (the button is disabled while loading)
LoginSubmit ==
  /\ LoginShown
  /\ ~lvLoading
  /\ Len(logins) < MaxLogins
  /\ lvErr' = ""
  /\ lvLoading' = TRUE
  /\ logins' = Append(logins, [live |-> TRUE])
  /\ UNCHANGED <<notApp, now, store, mounted, token, authed, authChecked, checks, searchVars>>

\* what /auth/login can answer: kind "network" (fetch rejects), "error" (a
\* non-success status, with or without data.msg) or "ok" (a success status,
\* access_token = NoToken when the field is missing or empty)
LoginResponses ==
  {[kind |-> "network", msg |-> FALSE, access_token |-> NoToken]}
  \cup {[kind |-> "error", msg |-> m, access_token |-> NoToken] : m \in BOOLEAN}
  \cup {[kind |-> "ok", msg |-> FALSE, access_token |-> t] : t \in Tokens \cup {NoToken}}

LoginAccepted(r) == r.kind = "ok" /\ r.access_token # NoToken

\* e.message || "Login failed"
LoginErrText(r) ==
  IF r.kind = "network" THEN "Failed to fetch"
  ELSE IF r.kind = "error" THEN (IF r.msg THEN "Bad credentials" ELSE "HTTP 401")
  ELSE "No access token returned"

LoginDone(i, r) ==
  LET l == logins[i]
  IN  /\ logins' = RemoveAt(logins, i)
      /\ lvLoading' = IF l.live THEN FALSE ELSE lvLoading
      /\ IF LoginAccepted(r)
           THEN /\ lvErr' = lvErr
                /\ token' = r.access_token
                /\ IF r.access_token # token
                     THEN TokenEffect(r.access_token, r.access_token, authed)
                     ELSE \* setToken with the value already held: no render
                          /\ store' = r.access_token
                          /\ UNCHANGED <<authed, authChecked, checks>>
           ELSE /\ lvErr' = IF l.live THEN LoginErrText(r) ELSE lvErr
                /\ UNCHANGED <<store, token, authed, authChecked, checks>>
      /\ UNCHANGED <<notApp, now, mounted, searchVars>>

(***************************************************************************)
(* logout                                                                  *)
(***************************************************************************)
LogoutStoreOnly ==
  /\ MainShown
  /\ store' = NoToken
  /\ UNCHANGED <<notApp, now, mounted, token, authed, authChecked, checks, loginVars,
                 searchVars>>

\* the "Log out" button is clicked: the store is cleared, setToken("") and
\* setAuthed(false) are rendered and the effect on [token] runs
Logout ==
  /\ MainShown
  /\ token' = NoToken
  /\ IF token # NoToken
       THEN TokenEffect(NoToken, NoToken, FALSE)
       ELSE store' = NoToken /\ authed' = FALSE /\ UNCHANGED <<authChecked, checks>>
  /\ UNCHANGED <<notApp, now, mounted, loginVars, searchVars>>

(***************************************************************************)
(* The search toolbar                                                      *)
(***************************************************************************)
SetQuery(q) ==
  /\ MainShown
  /\ query' = q
  /\ UNCHANGED <<notApp, now, store, mounted, token, authed, authChecked, checks, loginVars,
                 method, alpha, topK, loading, error, results, totalMatches,
                 sourceFilter, searches>>

\* setTopK(Number(e.target.value) || 20)
SetTopK(v) ==
  /\ MainShown
  /\ topK' = IF v # 0 THEN v ELSE 20
  /\ UNCHANGED <<notApp, now, store, mounted, token, authed, authChecked, checks, loginVars,
                 query, method, alpha, loading, error, results, totalMatches,
                 sourceFilter, searches>>

SetMethod(m) ==
  /\ MainShown
  /\ method' = m
  /\ UNCHANGED <<notApp, now, store, mounted, token, authed, authChecked, checks, loginVars,
                 query, alpha, topK, loading, error, results, totalMatches,
                 sourceFilter, searches>>

Min(a, b) == IF a <= b THEN a ELSE b
Max(a, b) == IF a >= b THEN a ELSE b

\* setAlpha(Math.max(0, Math.min(1, Number(e.target.value)))); the input is
\* disabled unless method is hybrid
SetAlpha(v) ==
  /\ MainShown
  /\ method = "hybrid"
  /\ alpha' = Max(0, Min(100, v))
  /\ UNCHANGED <<notApp, now, store, mounted, token, authed, authChecked, checks, loginVars,
                 query, method, topK, loading, error, results, totalMatches,
                 sourceFilter, searches>>

\* the browser's constraint validation of the toolbar form: "Max results" has
\* min 5, max 100, step 5; "Alpha" has min 0, max 1, step 0.05 and is skipped
\* while disabled
FormValid ==
  /\ topK >= 5 /\ topK <= 100 /\ (topK - 5) % 5 = 0
  /\ method = "hybrid" => (alpha >= 0 /\ alpha <= 100 /\ alpha % 5 = 0)

\* the toolbar form is submitted (the Search button is disabled while loading)
Submit ==
  /\ MainShown
  /\ ~loading
  /\ FormValid
  /\ RunSearch(authed)
  /\ UNCHANGED <<notApp, now, store, mounted, token, authed, authChecked, checks, loginVars,
                 query, method, alpha, topK, results, totalMatches, sourceFilter>>

(***************************************************************************)
(* runSearch after its awaits                                              *)
(***************************************************************************)
SearchOkItemsOnly(i, data) ==
  /\ searches' = RemoveAt(searches, i)
  /\ results' = DecodeResults(data)
  /\ totalMatches' = totalMatches
  /\ loading' = FALSE
  /\ UNCHANGED <<notApp, now, store, mounted, token, authed, authChecked, checks, loginVars,
                 query, method, alpha, topK, error, sourceFilter>>

\* a success status and a JSON body
SearchOk(i, data) ==
  /\ searches' = RemoveAt(searches, i)
  /\ results' = DecodeResults(data)
  /\ totalMatches' = DecodeTotal(data)
  /\ loading' = FALSE
  /\ UNCHANGED <<notApp, now, store, mounted, token, authed, authChecked, checks, loginVars,
                 query, method, alpha, topK, error, sourceFilter>>

SearchFailures == {"status", "network", "json"}

\* err?.message || String(err)
SearchErrText(k) ==
  IF k = "status" THEN "HTTP 500"
  ELSE IF k = "network" THEN "Failed to fetch"
  ELSE "Unexpected token"

SearchFailLogsOut(i, k) ==
  /\ searches' = RemoveAt(searches, i)
  /\ error' = SearchErrText(k)
  /\ loading' = FALSE
  /\ store' = NoToken
  /\ authed' = FALSE
  /\ UNCHANGED <<notApp, now, mounted, token, authChecked, checks, loginVars,
                 query, method, alpha, topK, results, totalMatches, sourceFilter>>

\* a non-success status, fetch rejected, or res.json() rejected
SearchFail(i, k) ==
  /\ searches' = RemoveAt(searches, i)
  /\ error' = SearchErrText(k)
  /\ loading' = FALSE
  /\ UNCHANGED <<notApp, now, store, mounted, token, authed, authChecked, checks, loginVars,
                 query, method, alpha, topK, results, totalMatches, sourceFilter>>

(***************************************************************************)
(* Result post-processing (derived on every render)                        *)
(***************************************************************************)
\* the distinct sources of results (the chips)
Sources(rs) == {rs[i].source : i \in 1..Len(rs)}

\* results.filter with the test negated
RECURSIVE FilterOutSeq(_, _)
FilterOutSeq(rs, f) ==
  IF rs = <<>> THEN <<>>
  ELSE IF Head(rs).source \notin f
         THEN <<Head(rs)>> \o FilterOutSeq(Tail(rs), f)
         ELSE FilterOutSeq(Tail(rs), f)

RECURSIVE FilterSeq(_, _)
FilterSeq(rs, f) ==
  IF rs = <<>> THEN <<>>
  ELSE IF Head(rs).source \in f
         THEN <<Head(rs)>> \o FilterSeq(Tail(rs), f)
         ELSE FilterSeq(Tail(rs), f)

filtered == IF sourceFilter = {} THEN results ELSE FilterSeq(results, sourceFilter)

\* Array.prototype.slice(0, k)
Slice0(s, k) ==
  IF k >= 0 THEN SubSeq(s, 1, Min(k, Len(s)))
  ELSE SubSeq(s, 1, Max(Len(s) + k, 0))

pageItems == Slice0(filtered, topK)

ToggleSourceRecounts(src) ==
  /\ MainShown
  /\ src \in Sources(results)
  /\ sourceFilter' = IF src \in sourceFilter THEN sourceFilter \ {src}
                                              ELSE sourceFilter \cup {src}
  /\ totalMatches' = Len(results)
  /\ UNCHANGED <<notApp, now, store, mounted, token, authed, authChecked, checks, loginVars,
                 query, method, alpha, topK, loading, error, results, searches>>

\* a chip is clicked (chips exist for the sources of the items held)
ToggleSource(src) ==
  /\ MainShown
  /\ src \in Sources(results)
  /\ sourceFilter' = IF src \in sourceFilter THEN sourceFilter \ {src}
                                              ELSE sourceFilter \cup {src}
  /\ UNCHANGED <<notApp, now, store, mounted, token, authed, authChecked, checks, loginVars,
                 query, method, alpha, topK, loading, error, results, totalMatches,
                 searches>>

AllSources == {"A", "B", "C"}

(***************************************************************************)
(* The static search page (part_000)                                       *)
(***************************************************************************)
\* Math.max(5, Math.min(100, Number(topKInput.value) || 20))
PageTopK(v) == Max(5, Min(100, IF v # 0 THEN v ELSE 20))

PageRequest ==
  [query |-> Trim(pgQ), top_k |-> PageTopK(pgTopK), method |-> pgMethod,
   hasAlpha |-> pgMethod = "hybrid",
   alpha |-> IF pgMethod = "hybrid" THEN pgAlpha ELSE 0,
   shownAlpha |-> pgAlpha]

\* the submit handler up to its await
PageHandler ==
  /\ Len(pgReqs) < MaxPageReqs
  /\ pgErr' = [pgErr EXCEPT !.shown = FALSE]
  /\ pgInfo' = TRUE
  /\ pgStat' = [text |-> "Searching", method |-> "", alpha |-> 0]
  /\ pgCount' = [pgCount EXCEPT !.shown = FALSE]
  /\ pgResults' = <<>>
  /\ pgReqs' = Append(pgReqs, PageRequest)
  /\ UNCHANGED <<pgQ, pgTopK, pgMethod, pgAlpha>>

\* DOMContentLoaded: form.dispatchEvent(new Event("submit"))
PageLoad ==
  /\ ~pgLoaded
  /\ pgLoaded' = TRUE
  /\ PageHandler
  /\ UNCHANGED notPage

\* the user submits the form
PageSubmit ==
  /\ pgLoaded
  /\ PageHandler
  /\ UNCHANGED <<notPage, pgLoaded>>

PageSetQ(q) ==
  /\ pgLoaded
  /\ pgQ' = q
  /\ UNCHANGED <<notPage, pgLoaded, pgTopK, pgMethod, pgAlpha, pgErr, pgInfo, pgStat, pgCount,
                 pgResults, pgReqs>>

PageSetTopK(v) ==
  /\ pgLoaded
  /\ pgTopK' = v
  /\ UNCHANGED <<notPage, pgLoaded, pgQ, pgMethod, pgAlpha, pgErr, pgInfo, pgStat, pgCount,
                 pgResults, pgReqs>>

PageSetMethod(m) ==
  /\ pgLoaded
  /\ pgMethod' = m
  /\ UNCHANGED <<notPage, pgLoaded, pgQ, pgTopK, pgAlpha, pgErr, pgInfo, pgStat, pgCount,
                 pgResults, pgReqs>>

\* updateAlphaState disables the input unless the method is hybrid
PageSetAlpha(v) ==
  /\ pgLoaded
  /\ pgMethod = "hybrid"
  /\ pgAlpha' = v
  /\ UNCHANGED <<notPage, pgLoaded, pgQ, pgTopK, pgMethod, pgErr, pgInfo, pgStat, pgCount,
                 pgResults, pgReqs>>

\* typeof data.total_matches === "number" ? data.total_matches : items.length
PageTotal(data) ==
  IF data.hasTotal THEN data.total_matches ELSE Len(DecodeResults(data))

NoResultsCard == Item("No results.", 0)

\* a success status and a JSON body
PageSearchOk(i, data) ==
  LET r == pgReqs[i]
      items == DecodeResults(data)
  IN  /\ pgReqs' = RemoveAt(pgReqs, i)
      /\ pgInfo' = FALSE
      /\ IF items = <<>>
           THEN /\ pgResults' = <<NoResultsCard>>
                /\ pgStat' = [text |-> "No results.", method |-> "", alpha |-> 0]
                /\ UNCHANGED pgCount
           ELSE /\ pgResults' = pgResults \o Slice0(items, r.top_k)
                /\ pgStat' = [text |-> "Method", method |-> r.method,
                              alpha |-> IF r.method = "hybrid" THEN r.shownAlpha ELSE 0]
                /\ pgCount' = [shown |-> TRUE, n |-> Min(Len(items), r.top_k),
                               total |-> PageTotal(data)]
      /\ UNCHANGED <<notPage, pgLoaded, pgQ, pgTopK, pgMethod, pgAlpha, pgErr>>

\* a non-success status, fetch rejected, or res.json() rejected
PageSearchFail(i, k) ==
  /\ pgReqs' = RemoveAt(pgReqs, i)
  /\ pgErr' = [shown |-> TRUE, text |-> SearchErrText(k)]
  /\ pgInfo' = FALSE
  /\ pgStat' = [text |-> "Error", method |-> "", alpha |-> 0]
  /\ UNCHANGED <<notPage, pgLoaded, pgQ, pgTopK, pgMethod, pgAlpha, pgCount, pgResults>>

(***************************************************************************)
(* The console login page (part_001)                                       *)
(***************************************************************************)
\* String(undefined), what setItem stores for a missing access_token
UndefinedText == [segs |-> 1, ok |-> FALSE, exp |-> 0]

LpToggleRemember ==
  /\ lpOpen
  /\ lpRemember' = ~lpRemember
  /\ UNCHANGED <<notLoginPage, lpOpen, lpError, lpLocal, lpSession, lpLogins>>

\* handleSubmit up to its await (the form is noValidate, the button never disabled)
LpSubmit ==
  /\ lpOpen
  /\ Len(lpLogins) < MaxLpLogins
  /\ lpError' = ""
  /\ lpLogins' = Append(lpLogins, [remember |-> lpRemember])
  /\ UNCHANGED <<notLoginPage, lpOpen, lpRemember, lpLocal, lpSession>>

\* err.message
LpErrText(r) ==
  IF r.kind = "network" THEN "Failed to fetch"
  ELSE IF r.msg THEN "Bad credentials"
  ELSE "Login failed. Please check your credentials."

\* handleSubmit after its awaits.  setError on an unmounted LoginPage is a no-op.
LpLoginDone(i, r) ==
  LET l == lpLogins[i]
      stored == IF r.access_token = NoToken THEN UndefinedText ELSE r.access_token
  IN  /\ lpLogins' = RemoveAt(lpLogins, i)
      /\ IF r.kind = "ok"
           THEN /\ lpLocal' = IF l.remember THEN stored ELSE lpLocal
                /\ lpSession' = IF l.remember THEN lpSession ELSE stored
                /\ lpOpen' = FALSE
                /\ UNCHANGED lpError
           ELSE /\ lpError' = IF lpOpen THEN LpErrText(r) ELSE lpError
                /\ UNCHANGED <<lpLocal, lpSession, lpOpen>>
      /\ UNCHANGED <<notLoginPage, lpRemember>>

\* the user opens the login route again: a fresh LoginPage
LpOpen ==
  /\ ~lpOpen
  /\ lpOpen' = TRUE
  /\ lpRemember' = TRUE
  /\ lpError' = ""
  /\ UNCHANGED <<notLoginPage, lpLocal, lpSession, lpLogins>>

(***************************************************************************)
(* highlight: the text of a result card.  A text is a sequence of          *)
(* characters; what is displayed is a sequence of segments, each marked    *)
(* (inside a mark element) or plain.                                       *)
(***************************************************************************)
MaxTextLen == 3      \* characters of an item's text
MaxQueryLen == 2     \* characters of the query

\* a lower-case and an upper-case letter, a regular-expression metacharacter
\* and a character that HTML escapes
Chars == {"a", "A", ".", "&"}

TextsUpTo(n) == UNION {[1..k -> Chars] : k \in 0..n}

\* no card rendered, nothing to render
NoCard ==
  /\ hlText = <<>>
  /\ hlQuery = <<>>
  /\ hlBy = "none"
  /\ hlOut = <<>>

\* the character class of q.replace(/[.*+?^${}()|[\]\\]/g, ...)
ReMeta == {".", "*", "+", "?", "^", "$", "{", "}", "(", ")", "|", "[", "]", "\\"}

NoEscapeRe(q) == q

\* q.replace(/[.*+?^${}()|[\]\\]/g, "\\$&"): a backslash before each metacharacter
RECURSIVE EscapeRe(_)
EscapeRe(q) ==
  IF q = <<>> THEN <<>>
  ELSE (IF Head(q) \in ReMeta THEN <<"\\", Head(q)>> ELSE <<Head(q)>>)
         \o EscapeRe(Tail(q))

\* new RegExp("(" + escaped + ")", "ig"): the atoms of the pattern inside the
\* group.  A backslash makes the next character a literal, a bare "." matches
\* any character, any other character of Chars is a literal.
RECURSIVE Compile(_)
Compile(e) ==
  IF e = <<>> THEN <<>>
  ELSE IF Head(e) = "\\" /\ Len(e) >= 2
         THEN <<[any |-> FALSE, c |-> e[2]]>> \o Compile(Tail(Tail(e)))
  ELSE IF Head(e) = "."
         THEN <<[any |-> TRUE, c |-> "."]>> \o Compile(Tail(e))
  ELSE <<[any |-> FALSE, c |-> Head(e)]>> \o Compile(Tail(e))

\* the i flag: characters are compared by their case-folded form
Fold(c) == IF c = "A" THEN "a" ELSE c

AtomMatches(atom, c) == atom.any \/ Fold(atom.c) = Fold(c)

\* the pattern matches s at position p
MatchesAt(atoms, s, p) ==
  /\ p + Len(atoms) - 1 <= Len(s)
  /\ \A k \in 1..Len(atoms) : AtomMatches(atoms[k], s[p + k - 1])

\* String.prototype.split with a one-group pattern: the parts between the
\* matches (possibly empty) alternate with the matched texts; matches are
\* taken leftmost first and do not overlap.  p: the scan position; from: where
\* the current part starts.
RECURSIVE SplitFrom(_, _, _, _)
SplitFrom(atoms, s, p, from) ==
  IF p > Len(s) THEN <<SubSeq(s, from, Len(s))>>
  ELSE IF MatchesAt(atoms, s, p)
         THEN <<SubSeq(s, from, p - 1), SubSeq(s, p, p + Len(atoms) - 1)>>
                \o SplitFrom(atoms, s, p + Len(atoms), p + Len(atoms))
  ELSE SplitFrom(atoms, s, p + 1, from)

\* App.jsx: highlight(txt, q) as rendered: the parts at odd (0-based) index
\* are wrapped in mark elements, the others are text
highlight(txt, q) ==
  IF q = <<>> \/ txt = <<>> THEN <<[mark |-> FALSE, text |-> txt]>>
  ELSE LET parts == SplitFrom(Compile(EscapeRe(q)), txt, 1, 1)
       IN  [i \in 1..Len(parts) |-> [mark |-> (i - 1) % 2 = 1, text |-> parts[i]]]

\* part_000: safe(s), HTML-escaping (of Chars only "&" is escaped)
RECURSIVE safe(_)
safe(s) ==
  IF s = <<>> THEN <<>>
  ELSE (IF Head(s) = "&" THEN <<"&", "a", "m", "p", ";">> ELSE <<Head(s)>>)
         \o safe(Tail(s))

\* safe(text).replace(re, "<mark>$1</mark>"): the HTML assigned to the card.
\* The two tags are single tokens (safe leaves no "<" in the text).
RECURSIVE Flatten(_)
Flatten(parts) ==
  IF parts = <<>> THEN <<>>
  ELSE IF Len(parts) = 1 THEN parts[1]
  ELSE parts[1] \o <<"<mark>">> \o parts[2] \o <<"</mark>">> \o Flatten(Tail(Tail(parts)))

pageHighlight(text, q) ==
  IF q = <<>> \/ text = <<>> THEN safe(text)
  ELSE Flatten(SplitFrom(Compile(EscapeRe(q)), safe(text), 1, 1))

\* the HTML parser's character references in text: "&amp;" (and the legacy
\* "&amp" without semicolon) becomes "&"; any other "&" stays as it is
RECURSIVE DecodeEntities(_)
DecodeEntities(s) ==
  IF s = <<>> THEN <<>>
  ELSE IF Len(s) >= 5 /\ SubSeq(s, 1, 5) = <<"&", "a", "m", "p", ";">>
         THEN <<"&">> \o DecodeEntities(SubSeq(s, 6, Len(s)))
  ELSE IF Len(s) >= 4 /\ SubSeq(s, 1, 4) = <<"&", "a", "m", "p">>
         THEN <<"&">> \o DecodeEntities(SubSeq(s, 5, Len(s)))
  ELSE <<Head(s)>> \o DecodeEntities(Tail(s))

\* innerHTML: the text nodes and mark elements the HTML parses to.  cur: the
\* text run being read; inMark: inside a mark element.
RECURSIVE ParseHtml(_, _, _)
ParseHtml(html, cur, inMark) ==
  IF html = <<>> THEN <<[mark |-> inMark, text |-> DecodeEntities(cur)]>>
  ELSE IF Head(html) = "<mark>"
         THEN <<[mark |-> inMark, text |-> DecodeEntities(cur)]>>
                \o ParseHtml(Tail(html), <<>>, TRUE)
  ELSE IF Head(html) = "</mark>"
         THEN <<[mark |-> inMark, text |-> DecodeEntities(cur)]>>
                \o ParseHtml(Tail(html), <<>>, FALSE)
  ELSE ParseHtml(Tail(html), Append(cur, Head(html)), inMark)

\* ResultCard renders {highlight(c.text, query)}
HighlightCard ==
  /\ hlBy = "none"
  /\ hlBy' = "app"
  /\ hlOut' = highlight(hlText, hlQuery)
  /\ UNCHANGED <<notCard, hlText, hlQuery>>

\* the page's card: innerHTML = ... ${highlight(c.text || "", q)} ...
PageHighlightCard ==
  /\ hlBy = "none"
  /\ hlBy' = "page"
  /\ hlOut' = ParseHtml(pageHighlight(hlText, hlQuery), <<>>, FALSE)
  /\ UNCHANGED <<notCard, hlText, hlQuery>>

\* the card is discarded (a new render, resultsBox.innerHTML = "")
DropCard ==
  /\ hlBy # "none"
  /\ hlBy' = "none"
  /\ hlOut' = <<>>
  /\ UNCHANGED <<notCard, hlText, hlQuery>>

(***************************************************************************)
(* Specifications                                                          *)
(***************************************************************************)
Init == AppInit /\ PageInit /\ LoginPageInit /\ NoCard

\* the static page alone: App left unmounted with an empty token store
PageOnlyInit == AppInit /\ store = NoToken /\ PageInit /\ LoginPageInit /\ NoCard

\* the React UI, session side: every token, every /auth/login and /auth/me
\* outcome, the clock; /search answers with one body or one failure
SessionQueries == {<<" ">>, DefaultQuery}

Next ==
  \/ Mount
  \/ Tick
  \/ \E i \in 1..Len(checks) : ValidateOk(i)
  \/ \E i \in 1..Len(checks) : ValidateFail(i)
  \/ LoginSubmit
  \/ \E i \in 1..Len(logins), r \in LoginResponses : LoginDone(i, r)
  \/ Logout
  \/ \E q \in SessionQueries : SetQuery(q)
  \/ Submit
  \/ \E i \in 1..Len(searches) : SearchOk(i, BodyFull)
  \/ \E i \in 1..Len(searches) : SearchFail(i, "status")

Spec == Init /\ [][Next]_vars

\* the React UI, search side: every /search outcome and query text; the clock
\* stands still and /auth/login answers with a token or a non-success status
SearchInit == Init /\ store \in {NoToken, JwtB}

SearchLoginResponses ==
  {r \in LoginResponses : r.kind = "error" \/ r.access_token \in {JwtA, JwtB}}

SearchNext ==
  \/ Mount
  \/ \E i \in 1..Len(checks) : ValidateOk(i)
  \/ \E i \in 1..Len(checks) : ValidateFail(i)
  \/ LoginSubmit
  \/ \E i \in 1..Len(logins), r \in SearchLoginResponses : LoginDone(i, r)
  \/ Logout
  \/ \E q \in QueryTexts : SetQuery(q)
  \/ Submit
  \/ \E i \in 1..Len(searches), data \in Bodies : SearchOk(i, data)
  \/ \E i \in 1..Len(searches), k \in SearchFailures : SearchFail(i, k)

SearchSpec == SearchInit /\ [][SearchNext]_vars

\* the static search page
PageNext ==
  \/ PageLoad
  \/ PageSubmit
  \/ \E q \in PageQueries : PageSetQ(q)
  \/ \E v \in TopKInputs : PageSetTopK(v)
  \/ \E m \in Methods : PageSetMethod(m)
  \/ \E v \in PageAlphaInputs : PageSetAlpha(v)
  \/ \E i \in 1..Len(pgReqs), data \in Bodies : PageSearchOk(i, data)
  \/ \E i \in 1..Len(pgReqs), k \in SearchFailures : PageSearchFail(i, k)

PageSpec == PageOnlyInit /\ [][PageNext]_vars

\* the console login page
LoginPageNext ==
  \/ LpToggleRemember
  \/ LpSubmit
  \/ \E i \in 1..Len(lpLogins), r \in LoginResponses : LpLoginDone(i, r)
  \/ LpOpen

LoginPageSpec == Init /\ [][LoginPageNext]_vars

\* the React UI, request building: the toolbar's method, alpha and "Max
\* results" inputs, the form's submit and the auto-run after a new sign-in;
\* the query keeps its default and /search answers with one body
ToolbarInit == Init /\ store = JwtB

ToolbarLoginResponses == {r \in LoginResponses : r.access_token = JwtB}

ToolbarNext ==
  \/ Mount
  \/ \E i \in 1..Len(checks) : ValidateOk(i)
  \/ LoginSubmit
  \/ \E i \in 1..Len(logins), r \in ToolbarLoginResponses : LoginDone(i, r)
  \/ Logout
  \/ \E v \in TopKInputs : SetTopK(v)
  \/ \E m \in Methods : SetMethod(m)
  \/ \E v \in AlphaInputs : SetAlpha(v)
  \/ Submit
  \/ \E i \in 1..Len(searches) : SearchOk(i, BodyNoRes)

ToolbarSpec == ToolbarInit /\ [][ToolbarNext]_vars

\* the React UI, result post-processing: the source chips and "Max results"
\* over every /search body; one sign-in, so requests never overlap
FilterNext ==
  \/ Mount
  \/ \E i \in 1..Len(checks) : ValidateOk(i)
  \/ \E v \in TopKInputs : SetTopK(v)
  \/ \E src \in AllSources : ToggleSource(src)
  \/ Submit
  \/ \E i \in 1..Len(searches), data \in FilterBodies : SearchOk(i, data)

FilterSpec == ToolbarInit /\ [][FilterNext]_vars

\* one result card, for every text and query up to the bounds
HighlightInit ==
  /\ AppInit /\ store = NoToken /\ PageInit /\ LoginPageInit
  /\ hlText \in TextsUpTo(MaxTextLen)
  /\ hlQuery \in TextsUpTo(MaxQueryLen)
  /\ hlBy = "none"
  /\ hlOut = <<>>

HighlightNext ==
  \/ HighlightCard
  \/ PageHighlightCard
  \/ DropCard

HighlightSpec == HighlightInit /\ [][HighlightNext]_vars

(***************************************************************************)
(* Properties                                                              *)
(***************************************************************************)

\* C1: of two /search requests A then B, B's response is what is held once
\* both have resolved, also when B's response arrives first: a response of a
\* superseded request that arrives after the most recent request has been
\* answered successfully (nothing newer pending, no error shown) never
\* overwrites results / totalMatches.
C1_LateStaleResponseDiscarded ==
  [][\A i \in 1..Len(searches) :
       (/\ searches' = RemoveAt(searches, i)
        /\ \A j \in 1..Len(searches) : ~searches[j].latest
        /\ error = "")
         => UNCHANGED <<results, totalMatches>>]_vars

\* C2: a search trigger that fires while the query text is empty after
\* trimming sends no /search request (static page: no step taken with a
\* blank query input adds a request).
C2_BlankQuerySendsNothing ==
  [][Trim(pgQ) = <<>> => Len(pgReqs') <= Len(pgReqs)]_vars

\* C2, the React UI's side: a /search request is only ever issued with the
\* view Authenticated and a query that is non-empty after trimming.
C2_AppIssuesOnlyWhenAllowed ==
  [][Len(searches') > Len(searches) => (authed' /\ Trim(query) # <<>>)]_vars

\* C3: the client is Authenticated only if a /auth/me call carrying the token
\* currently held has completed with success: authed holds after a step only
\* if it held before for the same token, or the step is the successful
\* completion of the check of the held token.
C3_AuthedOnlyIfConfirmed ==
  [][authed' =>
       \/ (authed /\ token' = token)
       \/ \E i \in 1..Len(checks) :
            /\ checks' = RemoveAt(checks, i)
            /\ checks[i].tok = token'
            /\ ~checks[i].cancelled]_vars

\* the token is absent, malformed (no payload segment, payload not decodable,
\* no expiry claim) or its expiry instant is at or before the current time
Unusable(t) ==
  \/ t = NoToken
  \/ t.segs < 2
  \/ ~t.ok
  \/ t.exp = 0
  \/ t.exp * MsPerSec <= now

\* the step runs session validation: the first render, or the token changed
ValidationStarts == (~mounted /\ mounted') \/ token' # token

\* C4: session validation of an absent, malformed or expired token ends
\* Invalid (Unauthenticated, check completed) within the step and sends no
\* /auth/me request.
C4_UnusableTokenNoRequest ==
  [][(ValidationStarts /\ Unusable(token')) =>
       /\ ~authed'
       /\ authChecked'
       /\ Len(checks') = Len(checks)
       /\ \A i \in 1..Len(checks') : checks'[i].cancelled]_vars

\* a token that is never sent to /auth/me was found Invalid locally
C4_Witness ==
  /\ mounted /\ authChecked /\ ~authed
  /\ token \in {Garbage, NoExp}
  /\ checks = <<>>

\* C5: whenever session validation ends Invalid (absent / malformed / expired
\* token, or /auth/me fails) the token store is empty after that step.
C5_InvalidClearsStore ==
  [][((ValidationStarts /\ Unusable(token'))
        \/ (\E i \in 1..Len(checks) : ValidateFail(i)))
       => store' = NoToken]_vars

\* a token that passed the local test was rejected by /auth/me
C5_Witness ==
  /\ authChecked /\ ~authed
  /\ token \in {JwtA, JwtB} /\ ~Unusable(token)
  /\ checks = <<>> /\ logins = <<>>
  /\ store = NoToken

\* C6: the view starts in Checking-Session and never returns to it once the
\* initial check has completed.
C6_NoReturnToChecking ==
  /\ CheckingSession
  /\ [][~CheckingSession => ~CheckingSession']_vars

\* after the initial check, a new token is being checked and the view is not
\* Checking-Session
C6_Witness ==
  /\ mounted /\ ~CheckingSession
  /\ \E i \in 1..Len(checks) : ~checks[i].cancelled /\ checks[i].tok = token

\* C7 as stated: every change of the view to Authenticated issues exactly one
\* /search request.
C7_AlwaysExactlyOne ==
  [][(~authed /\ authed') => Len(searches') = Len(searches) + 1]_vars

\* C7 amended: every change of the view to Authenticated runs the auto-run
\* once: it issues exactly one /search request when the query is non-empty
\* after trimming and none when it is empty.
C7_OnePerTransition ==
  [][(~authed /\ authed') =>
       Len(searches') = Len(searches) + (IF Trim(query) # <<>> THEN 1 ELSE 0)]_vars

\* the view has become Authenticated and the auto-run's request is the only
\* one pending; nothing has been displayed yet
C7_Witness ==
  /\ MainShown /\ store = token
  /\ loading /\ Len(searches) = 1 /\ searches[1].query = query
  /\ results = <<>> /\ error = ""

\* the (results, totalMatches) pair a response body decodes to
PairOf(data) ==
  <<IF data.hasResults THEN data.results ELSE <<>>,
    IF data.hasTotal THEN data.total_matches ELSE 0>>

\* C8: results and totalMatches always come from the same response (or are
\* both initial): no state pairs the items of one response with the
\* totalMatches of another.
C8_PairFromOneResponse ==
  <<results, totalMatches>> \in {<<<<>>, 0>>} \cup {PairOf(data) : data \in Bodies}

\* a response has replaced the pair of an earlier one while another request
\* is still pending
C8_Witness ==
  /\ <<results, totalMatches>> = PairOf(BodyNoTot)
  /\ Len(searches) = 1

\* C9: a failed search sets a visible error and leaves the session, the
\* stored token and the query parameters as they were.
C9_FailureKeepsSession ==
  [][(\E i \in 1..Len(searches), k \in SearchFailures : SearchFail(i, k)) =>
       /\ error' # ""
       /\ UNCHANGED <<authed, authChecked, store, token, query, method, alpha, topK>>]_vars

\* a search has failed and the user is still signed in
C9_Witness ==
  /\ error # "" /\ ~loading /\ searches = <<>>
  /\ MainShown /\ store = token /\ token # NoToken

\* C10: only a success response that carries an access token persists a
\* token (console login page: what the stores hold is absent or a token the
\* server issued).
C10_OnlyIssuedTokensStored ==
  /\ lpLocal \in Tokens \cup {NoToken}
  /\ lpSession \in Tokens \cup {NoToken}

\* C10, the React UI's side: a /auth/login answer without an access token
\* leaves store, token and view unchanged and shows an error.
C10_AppRejectedLoginStoresNothing ==
  [][\A i \in 1..Len(logins), r \in LoginResponses :
       (LoginDone(i, r) /\ ~(r.kind = "ok" /\ r.access_token # NoToken)) =>
         /\ UNCHANGED <<store, token, authed, authChecked>>
         /\ (logins[i].live => lvErr' # "")]_vars

\* C11: every transmitted /search request carries an alpha parameter if and
\* only if its method is hybrid (React UI: every pending request, whatever
\* alpha is stored); query, top_k and method are present on every request.
C11_AlphaIffHybrid ==
  \A i \in 1..Len(searches) :
    /\ searches[i].hasAlpha <=> (searches[i].method = "hybrid")
    /\ {"query", "top_k", "method"} \subseteq DOMAIN searches[i]

\* a lexical or semantic request is pending without alpha while a non-default
\* alpha is stored, next to a hybrid request that carries its alpha
C11_Witness ==
  /\ \E i \in 1..Len(searches) :
       /\ searches[i].method # "hybrid" /\ ~searches[i].hasAlpha
       /\ searches[i].latest /\ method = searches[i].method /\ alpha = 100
  /\ \E i \in 1..Len(searches) :
       searches[i].method = "hybrid" /\ searches[i].hasAlpha /\ searches[i].alpha = 30

\* C11, the static page's side: its requests carry alpha iff their method is
\* hybrid.
C11_PageAlphaIffHybrid ==
  \A i \in 1..Len(pgReqs) :
    /\ pgReqs[i].hasAlpha <=> (pgReqs[i].method = "hybrid")
    /\ {"query", "top_k", "method"} \subseteq DOMAIN pgReqs[i]

\* C12: the top_k transmitted in a /search request lies in [5,100] whatever
\* was entered in "Max results" (React UI: every pending request).
C12_TopKClamped ==
  \A i \in 1..Len(searches) : searches[i].top_k >= 5 /\ searches[i].top_k <= 100

\* C12, the static page's side: its requests carry a top_k in [5,100].
C12_PageTopKClamped ==
  \A i \in 1..Len(pgReqs) : pgReqs[i].top_k >= 5 /\ pgReqs[i].top_k <= 100

\* C13: filter selections naming sources absent from the ResultSet held have
\* no effect on what is displayed: the displayed items are those obtained
\* with the absent selections removed from the filter (all items, up to topK,
\* when every selected source is absent).
C13_AbsentSelectionsNoEffect ==
  LET present == sourceFilter \cap Sources(results)
  IN  pageItems = Slice0(IF present = {} THEN results
                                         ELSE FilterSeq(results, present), topK)

\* the positions of results whose source the filter admits (every position
\* under an empty filter)
Admitted ==
  {i \in 1..Len(results) : sourceFilter = {} \/ results[i].source \in sourceFilter}

\* C14: the displayed sequence is an order-preserving subsequence of the
\* items held: it consists of the first topK admitted positions, each item at
\* its original relative order (the k-th displayed item is the item at the
\* admitted position that has k - 1 admitted positions before it).
C14_OrderPreservingSubsequence ==
  /\ Len(pageItems) = Min(Cardinality(Admitted), topK)
  /\ \A k \in 1..Len(pageItems) :
       \E i \in Admitted :
         /\ Cardinality({j \in Admitted : j < i}) = k - 1
         /\ pageItems[k] = results[i]

\* a non-empty filter drops items from the middle and "Max results" cuts the
\* tail: three of five items pass the filter, two are displayed
C14_Witness ==
  /\ results = BodyLong.results
  /\ sourceFilter = {"A"}
  /\ topK = 2
  /\ pageItems = <<Item("A", 1), Item("A", 3)>>

\* an empty filter shows the items unchanged, cut at "Max results"
C14_WitnessEmptyFilter ==
  /\ results = BodyFull.results /\ sourceFilter = {} /\ topK = 2
  /\ pageItems = <<Item("A", 1), Item("B", 2)>>

\* C15: a step that changes the source filter changes nothing else of the
\* search state: it issues no request, leaves the ResultSet and totalMatches
\* as they were, and the displayed count is the count after filtering and
\* truncation.
C15_ToggleChangesOnlyFilter ==
  [][sourceFilter' # sourceFilter =>
       /\ UNCHANGED <<results, totalMatches, searches, loading, error, query, method,
                      alpha, topK, store, token, authed, authChecked, checks>>
       /\ Len(pageItems') = Min(Cardinality(Admitted'), topK)]_vars

\* a source present in one of three items is selected: one item is displayed
\* while totalMatches is the number the backend reported
C15_Witness ==
  /\ results = BodyFull.results /\ totalMatches = BodyFull.total_matches
  /\ sourceFilter = {"B"}
  /\ pageItems = <<Item("B", 2)>>
  /\ searches = <<>>

\* C16: a successful /search response is decoded leniently: it raises no
\* error, a missing results field gives an empty ResultSet, and a missing
\* total_matches sets totalMatches to the number of results received.
C16_LenientDecoding ==
  [][\A i \in 1..Len(searches), data \in Bodies :
       SearchOk(i, data) =>
         /\ error' = error
         /\ results' = (IF data.hasResults THEN data.results ELSE <<>>)
         /\ totalMatches' = (IF data.hasTotal THEN data.total_matches
                                              ELSE Len(results'))]_vars

\* C16, the consequence: totalMatches is at least the number of items held.
C16_TotalCoversItems == totalMatches >= Len(results)

\* C16, the static page's side: the total it shows is at least the number of
\* cards it counts.
C16_PageTotalCoversItems == pgCount.shown => pgCount.total >= pgCount.n

\* C17: whenever at least one /search request is in flight the UI is in the
\* searching state (loading is true), also when requests overlap and an
\* earlier one completes while a later one is still pending.
C17_PendingImpliesLoading == searches # <<>> => loading

\* C18: logout leaves the token store empty and the view Unauthenticated, and
\* as long as no later login has been accepted (no token is held) the store
\* stays empty and the view stays Unauthenticated, whatever /search or
\* /auth/me responses requested before the logout arrive.
C18_LogoutIsFinal ==
  /\ [][Logout => (store' = NoToken /\ token' = NoToken /\ ~authed' /\ authChecked')]_vars
  /\ [](token = NoToken => (~authed /\ store = NoToken))

\* logged out with a /search request and a session check, both issued before
\* the logout, still to be answered
C18_Witness ==
  /\ LoginShown /\ token = NoToken /\ store = NoToken
  /\ searches # <<>>
  /\ checks # <<>>

\* C20: the outcome of a superseded session check (one that is not the last
\* check started, or whose token is not the token held) never changes authed
\* or authChecked.
C20_SupersededCheckIsInert ==
  [][\A i \in 1..Len(checks) :
       (/\ checks' = RemoveAt(checks, i)
        /\ (i < Len(checks) \/ checks[i].tok # token))
         => UNCHANGED <<authed, authChecked>>]_vars

\* the check of an earlier token has failed (it emptied the store) while the
\* check of the token held is still pending: the view has not changed
C20_Witness ==
  /\ token \in {JwtA, JwtB} /\ store = NoToken
  /\ authChecked /\ ~authed
  /\ checks = <<[tok |-> token, cancelled |-> FALSE]>>

\* the concatenation of the segments' texts
RECURSIVE Joined(_)
Joined(segs) == IF segs = <<>> THEN <<>> ELSE Head(segs).text \o Joined(Tail(segs))

\* s and t are equal up to the case of their letters
SameIgnoringCase(s, t) ==
  /\ Len(s) = Len(t)
  /\ \A k \in 1..Len(s) :
       (IF s[k] = "A" THEN "a" ELSE s[k]) = (IF t[k] = "A" THEN "a" ELSE t[k])

\* the literal query occurs in s, case-insensitively
Occurs(q, s) ==
  \E p \in 1..Len(s) :
    p + Len(q) - 1 <= Len(s) /\ SameIgnoringCase(SubSeq(s, p, p + Len(q) - 1), q)

\* the card marks exactly the occurrences of the literal query in text
MarksExactly(segs, text, q) ==
  /\ Joined(segs) = text
  /\ \A i \in 1..Len(segs) :
       IF segs[i].mark
         THEN q # <<>> /\ SameIgnoringCase(segs[i].text, q)
         ELSE q # <<>> => ~Occurs(q, segs[i].text)

\* C19: a rendered card marks exactly the case-insensitive occurrences of the
\* literal query in the item's text: metacharacters are matched literally,
\* the segments concatenated reproduce the text, and an empty query or text
\* gives no marks.
C19_HighlightMarksExactly ==
  hlBy # "none" => MarksExactly(hlOut, hlText, hlQuery)

\* C19, the React UI's side.
C19_AppHighlightExact ==
  hlBy = "app" => MarksExactly(hlOut, hlText, hlQuery)

\* the React UI marks both occurrences of the query, whatever their case,
\* and leaves the metacharacter between them plain
C19_AppWitness ==
  /\ hlBy = "app"
  /\ hlText = <<"a", ".", "A">> /\ hlQuery = <<"a">>
  /\ hlOut = <<[mark |-> FALSE, text |-> <<>>], [mark |-> TRUE, text |-> <<"a">>],
               [mark |-> FALSE, text |-> <<".">>], [mark |-> TRUE, text |-> <<"A">>],
               [mark |-> FALSE, text |-> <<>>]>>

\* C21: a session check that ends Invalid clears only its own token: when the
\* store holds a newer token (another token than the one the check carried),
\* the failure of a superseded check leaves the store as it is.
C21_SupersededFailureKeepsNewerToken ==
  [][\A i \in 1..Len(checks) :
       (/\ checks' = RemoveAt(checks, i)
        /\ (i < Len(checks) \/ checks[i].tok # token)
        /\ store # NoToken
        /\ store # checks[i].tok)
         => store' = store]_vars

====
